---- MODULE Spec2Model ----
(***************************************************************************)
(* A model of romantics.py: the filename cleaner (clean_filename), the     *)
(* copy worker thread (FileCopyWindow.CopyWorker) over a destination       *)
(* directory, and the window handlers that drive a copy                    *)
(* (FileCopyWindow.copy_selected_files and friends).                       *)
(*                                                                         *)
(* File names are sequences of one-character strings, so that splitting,   *)
(* filtering and suffixing are computed as the code computes them.         *)
(***************************************************************************)
EXTENDS Integers, Sequences, FiniteSets, TLC

(***************************************************************************)
(* Bounds of the model.                                                    *)
(***************************************************************************)
\* longest file name handed to clean_filename
MaxLen == 4

(***************************************************************************)
(* Characters and strings.                                                 *)
(***************************************************************************)
UpperAlpha ==
  <<"A","B","C","D","E","F","G","H","I","J","K","L","M",
    "N","O","P","Q","R","S","T","U","V","W","X","Y","Z">>

LowerAlpha ==
  <<"a","b","c","d","e","f","g","h","i","j","k","l","m",
    "n","o","p","q","r","s","t","u","v","w","x","y","z">>

DigitChars == <<"0","1","2","3","4","5","6","7","8","9">>

Range(s) == {s[i] : i \in 1..Len(s)}

\* str.lower() on one character
LowerChar(c) ==
  IF c \in Range(UpperAlpha)
  THEN LowerAlpha[CHOOSE i \in 1..Len(UpperAlpha) : UpperAlpha[i] = c]
  ELSE c

\* str.lower()
Lower(s) == [i \in 1..Len(s) |-> LowerChar(s[i])]

\* str.rfind(ch) + 1: the last position of ch in s, 0 when absent
RFind(s, ch) ==
  IF \E i \in 1..Len(s) : s[i] = ch
  THEN CHOOSE i \in 1..Len(s) : s[i] = ch /\ \A j \in (i+1)..Len(s) : s[j] # ch
  ELSE 0

\* os.path.splitext (genericpath._splitext with sep "/" and extsep "."):
\* the extension starts at the last dot, unless only dots lie between the
\* last separator and that dot, in which case there is no extension.
Splitext(p) ==
  LET sepIndex == RFind(p, "/")
      dotIndex == RFind(p, ".")
  IN  IF dotIndex > sepIndex
         /\ \E i \in (sepIndex+1)..(dotIndex-1) : p[i] # "."
      THEN <<SubSeq(p, 1, dotIndex-1), SubSeq(p, dotIndex, Len(p))>>
      ELSE <<p, <<>> >>

(***************************************************************************)
(* FileCopyWindow.clean_filename                                           *)
(***************************************************************************)
\* a variant of the second re.sub that leaves runs of dots as they are
CollapseDotsKeeps(s) == s

\* base.replace(' ', '.')
ReplaceSpaces(s) == [i \in 1..Len(s) |-> IF s[i] = " " THEN "." ELSE s[i]]

\* the character class [a-z0-9.-] of the first re.sub
Whitelist == Range(LowerAlpha) \cup Range(DigitChars) \cup {".", "-"}

\* re.sub(r'[^a-z0-9.-]', '', base)
IsWhite(c) == c \in Whitelist

DeleteOthers(s) == SelectSeq(s, IsWhite)

\* re.sub(r'\.+', '.', base): every maximal run of dots becomes one dot
RECURSIVE CollapseDots(_)
CollapseDots(s) ==
  IF Len(s) <= 1 THEN s
  ELSE IF s[1] = "." /\ s[2] = "."
       THEN CollapseDots(Tail(s))
       ELSE <<s[1]>> \o CollapseDots(Tail(s))

\* base.strip('.')
RECURSIVE StripLeft(_)
StripLeft(s) ==
  IF s # <<>> /\ s[1] = "." THEN StripLeft(Tail(s)) ELSE s

RECURSIVE StripRight(_)
StripRight(s) ==
  IF s # <<>> /\ s[Len(s)] = "."
  THEN StripRight(SubSeq(s, 1, Len(s)-1)) ELSE s

StripDots(s) == StripRight(StripLeft(s))

\* the base half of clean_filename, as left by line 883
CleanBase(filename) ==
  StripDots(CollapseDots(DeleteOthers(ReplaceSpaces(Lower(Splitext(filename)[1])))))

\* the extension half of clean_filename, as left by line 875
CleanExt(filename) == Lower(Splitext(filename)[2])

clean_filename(filename) == CleanBase(filename) \o CleanExt(filename)

(***************************************************************************)
(* Paths.                                                                  *)
(***************************************************************************)
\* os.path.basename
Basename(p) == SubSeq(p, RFind(p, "/") + 1, Len(p))

\* os.path.join(directory, name) for a relative name; joining to "" gives
\* the name itself, a path relative to the working directory
Join(d, name) == IF d = <<>> THEN name ELSE d \o <<"/">> \o name

\* str(counter) of the f-string on line 667
RECURSIVE Decimal(_)
Decimal(n) ==
  IF n < 10 THEN <<DigitChars[n + 1]>>
  ELSE Decimal(n \div 10) \o <<DigitChars[(n % 10) + 1]>>

(***************************************************************************)
(* More bounds, and the program's constants.                               *)
(***************************************************************************)
\* longest source file, in chunks
MaxChunks == 2

\* copy jobs run one after the other on the same destination
MaxJobs == 1

\* src.read(65536)
ChunkSize == 65536

Min(a, b) == IF a < b THEN a ELSE b

(***************************************************************************)
(* The files the copy worker sees.                                         *)
(***************************************************************************)
SrcA == <<"s", "/", "a", ".", "x">>

SrcB == <<"s", "/", "a", "_", "1", ".", "x">>

Sources == {SrcA, SrcB}

DestDir == <<"d">>

\* names that may be in the destination before a job
OldNames == {Join(DestDir, Basename(SrcA)), Join(DestDir, Basename(SrcB))}

FileSizes == {0} \cup {k * ChunkSize - 1 : k \in 1..MaxChunks}

\* a file that was in the destination before any job: no source, 7 bytes
OldFile == [origin |-> <<>>, bytes |-> 7]

\* the task lists a job is started with: distinct source files, in any order
TaskLists ==
  {<<a>> : a \in Sources} \cup
  {<<a, b>> : <<a, b>> \in {t \in Sources \X Sources : t[1] # t[2]}}

VARIABLES
  \* the file name under clean_filename, and the results of cleaning it
  fname, cstage, once, onceBase, twice,
  \* file system: source sizes, destination directory contents
  srcSize, dst,
  \* CopyWorker's fields (lines 651-656)
  files, dest_dir, canceled, total_size, total_copied, files_copied,
  \* CopyWorker.run: position, loop index and the locals of
  \* copy_file_with_progress
  pc, idx, dest_path, file_copied, chunk, open,
  \* signals emitted: last arguments and numbers of events
  sigTotal, nTotalEv, sigCount, nCountEv, nFinished, nError, errName,
  \* history of the job
  job, started, copiedTo, faultTask, cancelMid, cancelTask, outcome,
  \* chunks written to the destination since cancel() set the flag
  lateWrites,
  \* the destination as it was when the job was started
  dstBefore,
  \* FileCopyWindow: checked items of source_list, destination fields
  checked, dest_directory, destination_free_space,
  \* free bytes of each directory's disk; the application process
  diskFree, app,
  \* copy workers the window has running, bytes they wrote
  workers, written,
  \* the last run of copy_selected_files: how it ended, the total it
  \* computed and the free space it compared with; the last message box
  copyResult, copyTotal, copyFree, msg,
  \* whether that was the free space the destination's disk had at the
  \* check, the destination of that run, and whether the run before it was
  \* refused with the same total and destination because the disk had too
  \* little space
  copyFresh, copyDest, rerun,
  \* the files find_duplicates works on: contents by path, modification times
  disk, mtime,
  \* find_duplicates: position, its locals, the progress dialog's flag
  dpc, selected_files, duplicates, current, wasCanceled,
  \* message boxes shown for unreadable files, and the files they were for
  warnings, unreadable,
  \* what handle_duplicates was called with; its tree and checked boxes
  handed, tree, boxes, gboxes,
  \* how the last press of a button of the duplicates dialog ended
  dresult,
  \* the directory both lists start on: its entries, and whether the source
  \* and the destination directory can be listed
  entries, srcState, dstState,
  \* the filter, the two list widgets, and the last load of a list: which
  \* list, the directory's state then, whether a message box was shown
  extension, source_list, dest_list, lload, lstate, lwarned,
  \* Clean Names: the files of the directory (name to content), the list
  \* widget showing it, the planned renames and the one the loop is at, the
  \* errors collected, the place in clean_selected_directory, the last
  \* message box, and the number of files and the files replaced since the
  \* handler was entered
  rdir, rlist, changes, ri, errors, rpc, rmsg, rbefore, replaced

cleanVars == <<fname, cstage, once, onceBase, twice>>

fsVars == <<srcSize, dst>>

workerVars ==
  <<files, dest_dir, canceled, total_size, total_copied, files_copied,
    pc, idx, dest_path, file_copied, chunk, open>>

signalVars == <<sigTotal, nTotalEv, sigCount, nCountEv, nFinished, nError, errName>>

histVars ==
  <<job, started, copiedTo, faultTask, cancelMid, cancelTask, outcome,
    lateWrites, dstBefore>>

engineVars == <<fsVars, workerVars, signalVars, histVars>>

windowVars ==
  <<checked, dest_directory, destination_free_space, diskFree, app,
    workers, written, copyResult, copyTotal, copyFree, msg,
    copyFresh, copyDest, rerun>>

dupVars ==
  <<disk, mtime, dpc, selected_files, duplicates, current, wasCanceled,
    warnings, unreadable, handed, tree, boxes, gboxes, dresult>>

\* the duplicate finder and the directory listings
listVars ==
  <<entries, srcState, dstState, extension, source_list, dest_list,
    lload, lstate, lwarned>>

\* the Clean Names handler
renameVars == <<rdir, rlist, changes, ri, errors, rpc, rmsg, rbefore, replaced>>

toolVars == <<dupVars, listVars, renameVars>>

\* what the copy worker's steps leave alone
uiVars == <<cleanVars, windowVars, toolVars>>

vars == <<cleanVars, engineVars, windowVars, toolVars>>

(***************************************************************************)
(* The parts of the program at rest.                                       *)
(***************************************************************************)
OtherDir == <<"e">>

\* the directories that exist
Dirs == {DestDir, OtherDir}

\* a path that names no directory
NoDir == <<"n">>

\* clean_filename not called
CleanIdle ==
  fname = <<>> /\ cstage = 0 /\ once = <<>> /\ onceBase = <<>> /\ twice = <<>>

\* no worker constructed
WorkerIdle ==
  /\ files = <<>> /\ dest_dir = DestDir /\ canceled = FALSE
  /\ total_size = 0 /\ total_copied = 0 /\ files_copied = 0
  /\ pc = "none" /\ idx = 1 /\ dest_path = <<>> /\ file_copied = 0
  /\ chunk = 0 /\ open = {}
  /\ sigTotal = -1 /\ nTotalEv = 0 /\ sigCount = -1 /\ nCountEv = 0
  /\ nFinished = 0 /\ nError = 0 /\ errName = <<>>
  /\ job = 0 /\ started = <<>> /\ copiedTo = <<>>
  /\ faultTask = 0 /\ cancelMid = FALSE /\ cancelTask = 0
  /\ outcome = "Pending" /\ lateWrites = 0 /\ dstBefore = dst

\* the worker at rest beside an empty destination and empty source files
EngineIdle ==
  /\ srcSize = [f \in Sources |-> 0]
  /\ dst = [q \in {} |-> OldFile]
  /\ WorkerIdle

\* the window with nothing checked and no copy asked for
WindowIdle ==
  /\ checked = {}
  /\ dest_directory = DestDir
  /\ destination_free_space = 0
  /\ diskFree = [d \in Dirs |-> 0]
  /\ app = "running"
  /\ workers = 0 /\ written = 0
  /\ copyResult = "none" /\ copyTotal = 0 /\ copyFree = 0
  /\ msg = "none"
  /\ copyFresh = TRUE /\ copyDest = <<>> /\ rerun = FALSE

\* find_duplicates not called, no files to scan
DupIdle ==
  /\ disk = <<>> /\ mtime = <<>>
  /\ dpc = "idle" /\ selected_files = <<>> /\ duplicates = <<>>
  /\ current = 0 /\ wasCanceled = FALSE
  /\ warnings = <<>> /\ unreadable = {}
  /\ handed = <<>> /\ tree = <<>> /\ boxes = {} /\ gboxes = {}
  /\ dresult = "none"

\* the "All" of self.extensions
All == <<"A", "l", "l">>

\* the lists empty, as before the first load, in an empty directory
ListIdle ==
  /\ entries = <<>> /\ srcState = "ok" /\ dstState = "ok"
  /\ extension = All /\ source_list = <<>> /\ dest_list = <<>>
  /\ lload = "none" /\ lstate = "ok" /\ lwarned = FALSE

RenameIdle ==
  /\ rdir = <<>> /\ rlist = <<>> /\ changes = <<>> /\ ri = 0
  /\ errors = <<>> /\ rpc = "idle" /\ rmsg = "none"
  /\ rbefore = 0 /\ replaced = {}

ToolsIdle == DupIdle /\ ListIdle /\ RenameIdle

(***************************************************************************)
(* CopyWorker                                                              *)
(***************************************************************************)
\* a variant of os.path.exists that finds no path
PathExistsNever(p, present) == FALSE

\* os.path.exists(p), for a directory holding the paths in present
PathExists(p, present) == p \in present

\* the while loop of lines 666-669, entered with counter
RECURSIVE UniqueFrom(_, _, _, _, _)
UniqueFrom(d, base, ext, counter, present) ==
  LET new_name == base \o <<"_">> \o Decimal(counter) \o ext
      p == Join(d, new_name)
  IN  IF PathExists(p, present)
      THEN UniqueFrom(d, base, ext, counter + 1, present)
      ELSE p

\* a variant whose counter starts at 2: it skips name_1
get_unique_dest_path_from2(d, src_path, present) ==
  LET filename == Basename(src_path)
      plain == Join(d, filename)
  IN  IF PathExists(plain, present)
      THEN UniqueFrom(d, Splitext(filename)[1], Splitext(filename)[2], 2, present)
      ELSE plain

\* CopyWorker.get_unique_dest_path
get_unique_dest_path(d, src_path, present) ==
  LET filename == Basename(src_path)
      plain == Join(d, filename)
  IN  IF PathExists(plain, present)
      THEN UniqueFrom(d, Splitext(filename)[1], Splitext(filename)[2], 1, present)
      ELSE plain

\* sum(size for _, size in files)
RECURSIVE SumSizes(_)
SumSizes(fs) == IF fs = <<>> THEN 0 ELSE fs[1][2] + SumSizes(Tail(fs))

\* a variant of os.remove that leaves the file in place
RemoveFileKeeps(d, p) == d

\* os.remove(p)
RemoveFile(d, p) == [q \in (DOMAIN d) \ {p} |-> d[q]]

\* open(p, 'wb'): an empty file whose content will come from src
CreateFile(d, p, src) ==
  [q \in (DOMAIN d) \cup {p} |-> IF q = p THEN [origin |-> src, bytes |-> 0] ELSE d[q]]

\* dst.write(chunk)
AppendBytes(d, p, n) == [d EXCEPT ![p].bytes = @ + n]

\* a variant that leaves the files of task i open
CloseFilesLeaks(o, i) == o

\* leaving the with block of line 680 closes the files of task i
CloseFiles(o, i) == o \ {i}

\* a variant that assigns instead of adding
AddCopiedAssigns(copied, chunk_size) == chunk_size

\* self.total_copied += chunk_size
AddCopied(copied, chunk_size) == copied + chunk_size

\* lines 709-713: the directories that removing p, if it exists, can leave:
\* os.remove may fail and the failure is passed over
AfterCleanup(d, p) ==
  IF PathExists(p, DOMAIN d) THEN {RemoveFile(d, p), d} ELSE {d}

\* a variant in which the inner loop never looks at the flag
FlagSeenNever(c) == FALSE

\* the test of self.canceled on line 682
FlagSeen(c) == c

\* a variant in which the worker clears the flag once it has seen it
CanceledAfterCheckClears(c) == FALSE

\* self.canceled after lines 682-685: the worker reads it and leaves it
CanceledAfterCheck(c) == c

\* bytes of the current source not yet read
Unread == srcSize[files[idx][1]] - file_copied

Running == pc \in {"loop", "read", "chunk", "write"}

\* the values of self.dest_directory the window can construct a worker
\* with: a directory that exists, or "" after a path that did not exist
WorkerDests == {DestDir, <<>>}

\* CopyWorker.__init__ and QThread.start()
StartCopy(fs) ==
  /\ pc \in {"none", "done"}
  /\ job < MaxJobs
  /\ job' = job + 1
  /\ files' = [i \in 1..Len(fs) |-> <<fs[i], srcSize[fs[i]]>>]
  /\ dest_dir' \in WorkerDests
  /\ canceled' = FALSE
  /\ total_size' = SumSizes(files')
  /\ total_copied' = 0
  /\ files_copied' = 0
  /\ pc' = "loop"
  /\ idx' = 1
  /\ dest_path' = <<>>
  /\ file_copied' = 0
  /\ chunk' = 0
  /\ open' = {}
  /\ sigTotal' = -1 /\ nTotalEv' = 0 /\ sigCount' = -1 /\ nCountEv' = 0
  /\ nFinished' = 0 /\ nError' = 0 /\ errName' = <<>>
  /\ started' = <<>> /\ copiedTo' = <<>>
  /\ faultTask' = 0 /\ cancelMid' = FALSE /\ cancelTask' = 0
  /\ outcome' = "Running"
  /\ lateWrites' = 0
  /\ dstBefore' = dst
  /\ UNCHANGED <<uiVars, fsVars>>

\* a variant of the except clause that emits no error signal
ExceptOSErrorSilent(d, p) ==
  /\ nError' = nError
  /\ errName' = errName
  /\ dst' \in AfterCleanup(d, p)
  /\ open' = CloseFiles(open, idx)
  /\ chunk' = 0
  /\ pc' = "done"
  /\ outcome' = "Failed"
  /\ faultTask' = idx
  /\ UNCHANGED <<uiVars, srcSize, files, dest_dir, canceled, total_size,
                 total_copied, files_copied, idx, file_copied,
                 sigTotal, nTotalEv, sigCount, nCountEv, nFinished,
                 job, lateWrites, dstBefore, copiedTo, cancelMid, cancelTask>>

\* the except clause of lines 707-714, and run's return on line 736
ExceptOSError(d, p) ==
  /\ nError' = nError + 1
  /\ errName' = Basename(files[idx][1])
  /\ dst' \in AfterCleanup(d, p)
  /\ open' = CloseFiles(open, idx)
  /\ chunk' = 0
  /\ pc' = "done"
  /\ outcome' = "Failed"
  /\ faultTask' = idx
  /\ UNCHANGED <<uiVars, srcSize, files, dest_dir, canceled, total_size,
                 total_copied, files_copied, idx, file_copied,
                 sigTotal, nTotalEv, sigCount, nCountEv, nFinished,
                 job, lateWrites, dstBefore, copiedTo, cancelMid, cancelTask>>

\* lines 726-730 and 680: next task, destination resolved, both files opened
OpenFiles ==
  /\ pc = "loop" /\ idx <= Len(files) /\ ~canceled
  /\ dest_path' = get_unique_dest_path(dest_dir, files[idx][1], DOMAIN dst)
  /\ started' = Append(started, idx)
  /\ dst' = CreateFile(dst, dest_path', files[idx][1])
  /\ open' = open \cup {idx}
  /\ file_copied' = 0
  /\ chunk' = 0
  /\ pc' = "read"
  /\ UNCHANGED <<uiVars, srcSize, files, dest_dir, canceled, total_size,
                 total_copied, files_copied, idx, signalVars,
                 job, lateWrites, dstBefore, copiedTo, faultTask, cancelMid, cancelTask, outcome>>

\* lines 726-730 and 680: open() raises OSError, nothing is created
OpenFails ==
  /\ pc = "loop" /\ idx <= Len(files) /\ ~canceled
  /\ dest_path' = get_unique_dest_path(dest_dir, files[idx][1], DOMAIN dst)
  /\ started' = Append(started, idx)
  /\ ExceptOSError(dst, dest_path')

\* line 681: a chunk is read
ReadChunk ==
  /\ pc = "read" /\ Unread > 0
  /\ chunk' = Min(ChunkSize, Unread)
  /\ pc' = "chunk"
  /\ UNCHANGED <<uiVars, fsVars, files, dest_dir, canceled, total_size,
                 total_copied, files_copied, idx, dest_path, file_copied, open,
                 signalVars, histVars>>

\* line 681: src.read raises OSError
ReadFails ==
  /\ pc = "read"
  /\ started' = started
  /\ dest_path' = dest_path
  /\ ExceptOSError(dst, dest_path)

\* lines 681, 705, 733-734: end of file, both files closed, the task counted
FileDone ==
  /\ pc = "read" /\ Unread = 0
  /\ open' = CloseFiles(open, idx)
  /\ files_copied' = files_copied + 1
  /\ sigCount' = files_copied'
  /\ nCountEv' = nCountEv + 1
  /\ copiedTo' = Append(copiedTo, dest_path)
  /\ idx' = idx + 1
  /\ pc' = "loop"
  /\ UNCHANGED <<uiVars, fsVars, files, dest_dir, canceled, total_size,
                 total_copied, dest_path, file_copied, chunk,
                 sigTotal, nTotalEv, nFinished, nError, errName,
                 job, lateWrites, dstBefore, started, faultTask, cancelMid, cancelTask, outcome>>

\* line 680: leaving the with block, closing dst flushes and raises OSError
CloseFails ==
  /\ pc = "read" /\ Unread = 0
  /\ started' = started
  /\ dest_path' = dest_path
  /\ ExceptOSError(dst, dest_path)

\* lines 682-685: the flag is seen, the partial file is closed and removed
CancelObserved ==
  /\ pc = "chunk" /\ FlagSeen(canceled)
  /\ canceled' = CanceledAfterCheck(canceled)
  /\ dst' = RemoveFile(dst, dest_path)
  /\ open' = CloseFiles(open, idx)
  /\ chunk' = 0
  /\ pc' = "done"
  /\ outcome' = "Cancelled"
  /\ UNCHANGED <<uiVars, srcSize, files, dest_dir, total_size,
                 total_copied, files_copied, idx, dest_path, file_copied,
                 signalVars, job, lateWrites, dstBefore, started, copiedTo, faultTask,
                 cancelMid, cancelTask>>

\* lines 683-684: dst.close() or os.remove raises OSError
CancelCleanupFails ==
  /\ pc = "chunk" /\ FlagSeen(canceled)
  /\ started' = started
  /\ dest_path' = dest_path
  /\ ExceptOSError(dst, dest_path)

\* line 682: the flag is tested and found unset
CheckFlag ==
  /\ pc = "chunk" /\ ~FlagSeen(canceled)
  /\ pc' = "write"
  /\ UNCHANGED <<uiVars, fsVars, files, dest_dir, canceled, total_size,
                 total_copied, files_copied, idx, dest_path, file_copied,
                 chunk, open, signalVars, histVars>>

\* lines 687-703: the chunk is written; the progress signals go out when
\* 100 ms have passed since the last ones
WriteChunk(emit) ==
  /\ pc = "write"
  /\ lateWrites' = IF canceled THEN lateWrites + 1 ELSE lateWrites
  /\ dst' = AppendBytes(dst, dest_path, chunk)
  /\ file_copied' = file_copied + chunk
  /\ total_copied' = AddCopied(total_copied, chunk)
  /\ IF emit
     THEN sigTotal' = total_copied' /\ nTotalEv' = nTotalEv + 1
     ELSE UNCHANGED <<sigTotal, nTotalEv>>
  /\ chunk' = 0
  /\ pc' = "read"
  /\ UNCHANGED <<uiVars, srcSize, files, dest_dir, canceled, total_size,
                 files_copied, idx, dest_path, open,
                 sigCount, nCountEv, nFinished, nError, errName,
                 job, dstBefore, started, copiedTo, faultTask, cancelMid,
                 cancelTask, outcome>>

\* line 687: dst.write raises OSError (for one, no space left)
WriteFails ==
  /\ pc = "write"
  /\ started' = started
  /\ dest_path' = dest_path
  /\ ExceptOSError(dst, dest_path)

\* lines 727-728 and 738: the flag is seen at the head of the loop
LoopBreak ==
  /\ pc = "loop" /\ idx <= Len(files) /\ canceled
  /\ pc' = "done"
  /\ outcome' = "Cancelled"
  /\ UNCHANGED <<uiVars, fsVars, files, dest_dir, canceled, total_size,
                 total_copied, files_copied, idx, dest_path, file_copied, chunk,
                 open, signalVars, job, lateWrites, dstBefore, started, copiedTo, faultTask,
                 cancelMid, cancelTask>>

\* a variant of line 738 that emits finished whatever the flag is
EmitsFinishedAlways(c) == TRUE

\* line 738: finished is emitted when self.canceled is false
EmitsFinished(c) == ~c

\* lines 738-739: the list is exhausted
LoopEnd ==
  /\ pc = "loop" /\ idx > Len(files)
  /\ pc' = "done"
  /\ IF EmitsFinished(canceled)
     THEN nFinished' = nFinished + 1 /\ outcome' = "Completed"
     ELSE nFinished' = nFinished /\ outcome' = "Cancelled"
  /\ UNCHANGED <<uiVars, fsVars, files, dest_dir, canceled, total_size,
                 total_copied, files_copied, idx, dest_path, file_copied, chunk,
                 open, sigTotal, nTotalEv, sigCount, nCountEv, nError, errName,
                 job, lateWrites, dstBefore, started, copiedTo, faultTask, cancelMid, cancelTask>>

\* CopyWorker.cancel, called from the dialog's Cancel button
Cancel ==
  /\ Running /\ ~canceled
  /\ canceled' = TRUE
  /\ cancelMid' = (pc \in {"read", "chunk", "write"} /\ Unread - chunk > 0)
  /\ cancelTask' = IF pc \in {"read", "chunk", "write"} THEN idx ELSE 0
  /\ UNCHANGED <<uiVars, fsVars, files, dest_dir, total_size, total_copied,
                 files_copied, pc, idx, dest_path, file_copied, chunk, open,
                 signalVars, job, lateWrites, dstBefore, started, copiedTo, faultTask, outcome>>

Init ==
  /\ CleanIdle
  /\ WindowIdle
  /\ ToolsIdle
  /\ srcSize \in [Sources -> FileSizes]
  /\ dst \in {[p \in S |-> OldFile] : S \in SUBSET OldNames}
  /\ files = <<>> /\ dest_dir = DestDir /\ canceled = FALSE
  /\ total_size = 0 /\ total_copied = 0 /\ files_copied = 0
  /\ pc = "none" /\ idx = 1 /\ dest_path = <<>> /\ file_copied = 0
  /\ chunk = 0 /\ open = {}
  /\ sigTotal = -1 /\ nTotalEv = 0 /\ sigCount = -1 /\ nCountEv = 0
  /\ nFinished = 0 /\ nError = 0 /\ errName = <<>>
  /\ job = 0 /\ started = <<>> /\ copiedTo = <<>>
  /\ faultTask = 0 /\ cancelMid = FALSE /\ cancelTask = 0
  /\ outcome = "Pending" /\ lateWrites = 0 /\ dstBefore = dst

Next ==
  \/ \E fs \in TaskLists : StartCopy(fs)
  \/ OpenFiles
  \/ OpenFails
  \/ ReadChunk
  \/ ReadFails
  \/ FileDone
  \/ CloseFails
  \/ CancelObserved
  \/ CancelCleanupFails
  \/ CheckFlag
  \/ \E emit \in BOOLEAN : WriteChunk(emit)
  \/ WriteFails
  \/ LoopBreak
  \/ LoopEnd
  \/ Cancel

Spec == Init /\ [][Next]_vars

(***************************************************************************)
(* FileCopyWindow: the handlers around a copy.                             *)
(***************************************************************************)
\* the names bound at module level: the imports of lines 2-15 and the
\* class statement of line 17
ModuleNames ==
  {"os", "sys", "re", "time", "hashlib", "shutil", "datetime", "QtWidgets",
   "QtCore", "QtGui", "QThread", "pyqtSignal", "QUrl", "QMediaPlayer",
   "QAudioOutput", "mimetypes", "Image", "mutagen", "ffmpeg",
   "FileCopyWindow"}

\* the classes bound in the body of class FileCopyWindow (lines 594, 641)
ClassBodyNames == {"CopyProgressDialog", "CopyWorker"}

\* a variant in which the class body is an enclosing scope of its methods
NamesInMethodScopeWithClassBody == ModuleNames \cup ClassBodyNames

\* the global names a method body of FileCopyWindow can use: those of the
\* module; the class body is no enclosing scope of the functions in it
NamesInMethodScope == ModuleNames

\* the free space a destination disk can have
FreeSizes == {k * ChunkSize : k \in 0..(MaxChunks + 1)}

\* source_list as load_source_files fills it: the files in sorted order
SourceList == <<SrcA, SrcB>>

IsChecked(f) == f \in checked

\* get_selected_files(self.source_list)
get_selected_files == SelectSeq(SourceList, IsChecked)

\* total_size of lines 758-763
RECURSIVE TotalSize(_)
TotalSize(sel) ==
  IF sel = <<>> THEN 0 ELSE srcSize[Head(sel)] + TotalSize(Tail(sel))

\* update_free_space: the values destination_free_space can have after it,
\* for a destination d, old value v and disks free: the disk's free space,
\* 0 when disk_usage raises OSError, and v when d does not exist
update_free_space(d, v, free) ==
  IF d \in Dirs THEN {free[d], 0} ELSE {v}

\* the free space the window holds is that of the destination's disk
FreeSpaceIsCurrent ==
  dest_directory \in Dirs => destination_free_space = diskFree[dest_directory]

\* outside the program space is freed or used on the disk of the
\* destination directory d
DiskChanges(d, free) ==
  /\ app = "running"
  /\ d = dest_directory
  /\ diskFree[d] # free
  /\ diskFree' = [diskFree EXCEPT ![d] = free]
  /\ UNCHANGED <<cleanVars, engineVars, toolVars, checked, dest_directory,
                 destination_free_space, app, workers, written, copyResult,
                 copyTotal, copyFree, msg, copyFresh, copyDest, rerun>>

\* the user checks or unchecks an item of source_list
ToggleItem(f) ==
  /\ app = "running"
  /\ checked' = IF f \in checked THEN checked \ {f} ELSE checked \cup {f}
  /\ UNCHANGED <<cleanVars, engineVars, toolVars, dest_directory, destination_free_space,
                 diskFree, app, workers, written, copyResult, copyTotal,
                 copyFree, msg, copyFresh, copyDest, rerun>>

\* dest_path_changed(path): for a path that does not exist load_dest_files
\* clears the text box, which calls dest_path_changed("") before the outer
\* call goes on
dest_path_changed(path) ==
  /\ app = "running"
  /\ dest_directory' = IF path \in Dirs THEN path ELSE <<>>
  /\ destination_free_space' \in
       update_free_space(dest_directory', destination_free_space, diskFree)
  /\ UNCHANGED <<cleanVars, engineVars, toolVars, checked, diskFree, app, workers,
                 written, copyResult, copyTotal, copyFree, msg, copyFresh,
                 copyDest, rerun>>

\* browse_directory("dest") with the chooser accepted on selected_dir, a
\* directory that exists: lines 938-942, and dest_path_changed through
\* setText
browse_directory(selected_dir) ==
  /\ app = "running"
  /\ dest_directory' = selected_dir
  /\ destination_free_space' \in
       update_free_space(dest_directory', destination_free_space, diskFree)
  /\ UNCHANGED <<cleanVars, engineVars, toolVars, checked, diskFree, app, workers,
                 written, copyResult, copyTotal, copyFree, msg, copyFresh,
                 copyDest, rerun>>

\* copy_selected_files, lines 749-754: nothing is checked
CopyNothingSelected ==
  /\ app = "running"
  /\ get_selected_files = <<>>
  /\ msg' = "No Files Selected"
  /\ copyResult' = "no_selection"
  /\ copyTotal' = 0
  /\ copyFree' = destination_free_space
  /\ copyFresh' = FreeSpaceIsCurrent
  /\ copyDest' = dest_directory
  /\ rerun' = FALSE
  /\ UNCHANGED <<cleanVars, engineVars, toolVars, checked, dest_directory,
                 destination_free_space, diskFree, app, workers, written>>

\* copy_selected_files, lines 759-769: os.path.getsize raises OSError
CopyAccessError ==
  /\ app = "running"
  /\ get_selected_files # <<>>
  /\ msg' = "Could not access file"
  /\ copyResult' = "access_error"
  /\ copyTotal' = 0
  /\ copyFree' = destination_free_space
  /\ copyFresh' = FreeSpaceIsCurrent
  /\ copyDest' = dest_directory
  /\ rerun' = FALSE
  /\ UNCHANGED <<cleanVars, engineVars, toolVars, checked, dest_directory,
                 destination_free_space, diskFree, app, workers, written>>

\* copy_selected_files, lines 771-777: the selection is larger than the
\* free space the window holds
CopyNoSpace ==
  /\ app = "running"
  /\ get_selected_files # <<>>
  /\ TotalSize(get_selected_files) > destination_free_space
  /\ msg' = "Not enough space in destination directory"
  /\ copyResult' = "no_space"
  /\ copyTotal' = TotalSize(get_selected_files)
  /\ copyFree' = destination_free_space
  /\ copyFresh' = FreeSpaceIsCurrent
  /\ copyDest' = dest_directory
  /\ rerun' = ( /\ copyResult = "no_space" /\ copyFresh
                /\ copyTotal = copyTotal' /\ copyDest = dest_directory )
  /\ UNCHANGED <<cleanVars, engineVars, toolVars, checked, dest_directory,
                 destination_free_space, diskFree, app, workers, written>>

\* copy_selected_files, lines 779-798: the check is passed and line 780
\* evaluates the name CopyWorker.  Where the name is not in scope NameError
\* is raised out of the slot and PyQt ends the process.  Where it is, the
\* worker is started and the modal dialog runs until finished accepts it
\* (the worker has written everything and ends) or the user closes it (the
\* worker goes on running); then the lists and the free space are
\* refreshed.
CopyStart ==
  /\ app = "running"
  /\ get_selected_files # <<>>
  /\ TotalSize(get_selected_files) <= destination_free_space
  /\ copyTotal' = TotalSize(get_selected_files)
  /\ copyFree' = destination_free_space
  /\ copyFresh' = FreeSpaceIsCurrent
  /\ copyDest' = dest_directory
  /\ rerun' = ( /\ copyResult = "no_space" /\ copyFresh
                /\ copyTotal = copyTotal' /\ copyDest = dest_directory )
  /\ IF "CopyWorker" \notin NamesInMethodScope
     THEN /\ app' = "aborted"
          /\ copyResult' = "NameError"
          /\ UNCHANGED <<dest_directory, destination_free_space, diskFree,
                         workers, written, msg>>
     ELSE /\ copyResult' = "started"
          /\ \E accepted \in BOOLEAN :
               /\ accepted => (dest_directory \in Dirs /\
                               diskFree[dest_directory] >= copyTotal')
               /\ workers' = IF accepted THEN workers ELSE workers + 1
               /\ written' = IF accepted THEN written + copyTotal' ELSE written
               /\ diskFree' =
                    IF accepted
                    THEN [diskFree EXCEPT ![dest_directory] = @ - copyTotal']
                    ELSE diskFree
          /\ destination_free_space' \in
               update_free_space(dest_directory, destination_free_space, diskFree')
          /\ UNCHANGED <<dest_directory, app, msg>>
  /\ UNCHANGED <<cleanVars, engineVars, toolVars, checked>>

InitWindow ==
  /\ CleanIdle
  /\ ToolsIdle
  /\ srcSize \in [Sources -> FileSizes]
  /\ dst = [q \in {} |-> OldFile]
  /\ WorkerIdle
  /\ checked = {}
  /\ dest_directory = DestDir
  /\ diskFree \in [Dirs -> FreeSizes]
  /\ destination_free_space \in update_free_space(DestDir, 0, diskFree)
  /\ app = "running"
  /\ workers = 0 /\ written = 0
  /\ copyResult = "none" /\ copyTotal = 0 /\ copyFree = 0
  /\ msg = "none"
  /\ copyFresh = TRUE /\ copyDest = <<>> /\ rerun = FALSE

NextWindow ==
  \/ \E f \in Sources : ToggleItem(f)
  \/ \E path \in Dirs \cup {NoDir} : dest_path_changed(path)
  \/ \E selected_dir \in Dirs : browse_directory(selected_dir)
  \/ CopyNothingSelected
  \/ CopyAccessError
  \/ CopyNoSpace
  \/ CopyStart
  \/ \E d \in Dirs, free \in FreeSizes : DiskChanges(d, free)

SpecWindow == InitWindow /\ [][NextWindow]_vars

(***************************************************************************)
(* Properties of the window's copy handler.                                *)
(***************************************************************************)
\* C1: when copy_selected_files has sized a selection, then if the total
\* is above the free space it starts no worker and nothing is written, and
\* if the total is at most the free space the job is started.
C1_PreflightCheck ==
  copyResult \in {"no_space", "NameError", "started"} =>
     IF copyTotal > copyFree
     THEN copyResult = "no_space" /\ workers = 0 /\ written = 0
     ELSE copyResult = "started"

C26_FreeSpaceOfCurrentDest ==
  [][ dest_directory' # dest_directory =>
        destination_free_space' \in
          (IF dest_directory' \in Dirs
           THEN {diskFree'[dest_directory'], 0}
           ELSE {0}) ]_vars

\* C20: when copy_selected_files is run again after a run of the same job
\* (a selection of the same total, the same destination) failed because the
\* disk had too little
\* space, the free space the second run compares with is the free space the
\* destination's disk has at that moment.
C20_SafeRerun ==
  (rerun /\ copyResult \in {"no_space", "NameError", "started"}) => copyFresh

(***************************************************************************)
(* clean_filename applied to file names, once and again.                   *)
(***************************************************************************)
CleanAlphabet == {"A", "b", "1", " ", ".", "-", "!"}

RECURSIVE SeqsUpTo(_, _)
SeqsUpTo(S, n) ==
  IF n = 0 THEN {<<>>}
  ELSE LET shorter == SeqsUpTo(S, n - 1)
       IN  shorter \cup {Append(t, c) : t \in shorter, c \in S}

ExampleName ==
  <<"M","y"," ","G","a","m","e"," ","(","U","S","A",")"," ",
    "[","v","1",".","0","]",".","R","O","M">>

ExampleCleaned ==
  <<"m","y",".","g","a","m","e",".","u","s","a",".","v","1",".","0",
    ".","r","o","m">>

InitClean ==
  /\ fname \in SeqsUpTo(CleanAlphabet, MaxLen) \cup {ExampleName}
  /\ cstage = 0 /\ once = <<>> /\ onceBase = <<>> /\ twice = <<>>
  /\ EngineIdle
  /\ WindowIdle
  /\ ToolsIdle

\* new_name = self.clean_filename(old_name)
CleanOnce ==
  /\ cstage = 0
  /\ once' = clean_filename(fname)
  /\ onceBase' = CleanBase(fname)
  /\ cstage' = 1
  /\ UNCHANGED <<fname, twice, engineVars, windowVars, toolVars>>

\* clean_filename applied to its own result
CleanAgain ==
  /\ cstage = 1
  /\ twice' = clean_filename(once)
  /\ cstage' = 2
  /\ UNCHANGED <<fname, once, onceBase, engineVars, windowVars, toolVars>>

NextClean == CleanOnce \/ CleanAgain

SpecClean == InitClean /\ [][NextClean]_vars

(***************************************************************************)
(* Properties of clean_filename.                                           *)
(***************************************************************************)
\* C9: cleaning a cleaned name changes nothing.
C9_Idempotent == cstage = 2 => twice = once

\* the split the text gives: at the last dot, wherever it is
SplitLastDot(p) ==
  LET d == RFind(p, ".")
  IN  IF d = 0 THEN <<p, <<>> >>
      ELSE <<SubSeq(p, 1, d - 1), SubSeq(p, d, Len(p))>>

\* the elements of s at the positions in K, in order
Pick(s, K) ==
  [k \in 1..Cardinality(K) |->
     s[CHOOSE i \in K : Cardinality({j \in K : j <= i}) = k]]

\* the base the pipeline leaves, said position by position: a character of
\* the lower-cased base with spaces read as dots survives if it is in the
\* whitelist and, when it is a dot, if a kept non-dot lies before it, a
\* kept non-dot lies after it, and the kept character before it is no dot
PipelineBase(b) ==
  LET m == [i \in 1..Len(b) |->
              IF b[i] = " " THEN "." ELSE LowerChar(b[i])]
      kept == {i \in 1..Len(b) : m[i] \in Whitelist}
      prev(i) == {j \in kept : j < i /\ \A l \in kept : l < i => l <= j}
      survives(i) ==
        \/ m[i] # "."
        \/ /\ \E j \in kept : j < i /\ m[j] # "."
           /\ \E j \in kept : j > i /\ m[j] # "."
           /\ \A j \in prev(i) : m[j] # "."
  IN  Pick(m, {i \in kept : survives(i)})

\* the pipeline with a given split
Pipeline(split) == PipelineBase(split[1]) \o Lower(split[2])

\* the cleaned base has whitelist characters only, no two dots in a row and
\* no dot at either end
BaseWellFormed(b) ==
  /\ \A i \in 1..Len(b) : b[i] \in Whitelist
  /\ \A i \in 1..(Len(b) - 1) : ~(b[i] = "." /\ b[i + 1] = ".")
  /\ b # <<>> => (b[1] # "." /\ b[Len(b)] # ".")

SplitAfterLeadingDots(p) ==
  LET d == RFind(p, ".")
  IN  IF d > 0 /\ \E i \in 1..(d - 1) : p[i] # "."
      THEN <<SubSeq(p, 1, d - 1), SubSeq(p, d, Len(p))>>
      ELSE <<p, <<>> >>

Candidate(d, src_path, k) ==
  LET filename == Basename(src_path)
  IN  IF k = 0 THEN Join(d, filename)
      ELSE Join(d, Splitext(filename)[1] \o <<"_">> \o Decimal(k)
                   \o Splitext(filename)[2])

\* p is the first free candidate for src_path in a directory holding present
FirstFree(p, d, src_path, present) ==
  \E k \in 0..(Cardinality(present) + 1) :
     /\ p = Candidate(d, src_path, k)
     /\ p \notin present
     /\ \A j \in 0..(k - 1) : Candidate(d, src_path, j) \in present

\* task i's destination holds a complete copy of task i's source
CompleteCopy(i) ==
  /\ copiedTo[i] \in DOMAIN dst
  /\ dst[copiedTo[i]] = [origin |-> files[i][1], bytes |-> srcSize[files[i][1]]]

\* every task counted so far has its complete copy in the destination
EarlierComplete == \A i \in 1..Len(copiedTo) : CompleteCopy(i)

\* the tasks started are 1..n, each once, in the order of the list
StartedInOrder == \A i \in 1..Len(started) : started[i] = i

\* C2: whenever the worker resolves a destination path, the path is the
\* plain name if that is free and otherwise base_k+ext for the smallest
\* k >= 1 that is free; it names no file present at that moment; and no
\* step changes or removes a file that was in the destination before the
\* job, so a colliding fileA stays as it was beside the new fileA_1.
C2_UniqueDestPath ==
  [][ /\ Len(started') > Len(started) =>
           /\ FirstFree(dest_path', dest_dir, files[idx][1], DOMAIN dst)
           /\ dest_path' \notin DOMAIN dst
      /\ \A p \in DOMAIN dst :
           dst[p].origin = <<>> => (p \in DOMAIN dst' /\ dst'[p] = dst[p])
    ]_vars

\* C2 witness: a.x was in the destination, the job copied s/a.x to a_1.x
\* and the old a.x is as it was
C2_Witness ==
  /\ pc = "done" /\ outcome = "Completed"
  /\ Join(DestDir, Basename(SrcA)) \in DOMAIN dst
  /\ dst[Join(DestDir, Basename(SrcA))] = OldFile
  /\ \E i \in 1..Len(copiedTo) :
       /\ files[i][1] = SrcA
       /\ copiedTo[i] = Join(DestDir, <<"a", "_", "1", ".", "x">>)
       /\ CompleteCopy(i)

C4_FailFast ==
  faultTask # 0 =>
     /\ pc = "done"
     /\ nError = 1
     /\ errName = Basename(files[faultTask][1])
     /\ StartedInOrder /\ Len(started) = faultTask
     /\ files_copied = faultTask - 1
     /\ nFinished = 0

\* C4 witness: the first of two tasks failed after a chunk was written
C4_Witness ==
  /\ faultTask = 1 /\ Len(files) = 2 /\ file_copied > 0 /\ ~canceled
  /\ nError = 1

\* C5 as stated: a job that has ended is in exactly one of Completed,
\* Cancelled and Failed, and has emitted its terminal outcome (finished or
\* error) to the observer, once.
C5_TerminalOutcome ==
  pc = "done" =>
     /\ outcome \in {"Completed", "Cancelled", "Failed"}
     /\ nFinished + nError = 1

\* C6: tasks are started in list order, a task is started only when all
\* tasks before it have been copied and counted, and at most one task has
\* its files open.
C6_Sequential ==
  /\ StartedInOrder
  /\ Len(started) <= Len(files)
  /\ Len(started) > 0 => files_copied >= Len(started) - 1
  /\ Len(copiedTo) = files_copied
  /\ Cardinality(open) <= 1
  /\ open \subseteq {idx}

\* C6 witness: the second task is being copied
C6_Witness == pc = "chunk" /\ Len(started) = 2 /\ open = {2}

\* C7: within a job total_copied never decreases and every total_progress
\* event carries it, so the values carried never decrease; every
\* file_count event carries a count one above the last one, and there is
\* one such event per file counted.
C7_ProgressMonotone ==
  [][ job' = job =>
        /\ total_copied' >= total_copied
        /\ nTotalEv' # nTotalEv =>
              (sigTotal' = total_copied' /\ sigTotal' >= sigTotal)
        /\ nTotalEv' = nTotalEv => sigTotal' = sigTotal
        /\ nCountEv' # nCountEv =>
              /\ sigCount' = (IF sigCount = -1 THEN 1 ELSE sigCount + 1)
              /\ sigCount' = files_copied'
        /\ (nCountEv' # nCountEv) <=> (files_copied' = files_copied + 1)
        /\ files_copied' \in {files_copied, files_copied + 1}
    ]_vars

\* C7 witness: two progress events and two file counts have gone out
C7_Witness == nTotalEv >= 2 /\ nCountEv = 2 /\ sigCount = 2

\* a step of CopyWorker.run, taken in the worker's thread
RunStep ==
  \/ OpenFiles \/ OpenFails \/ ReadChunk \/ ReadFails \/ FileDone
  \/ CloseFails \/ CancelObserved \/ CancelCleanupFails \/ CheckFlag
  \/ (\E emit \in BOOLEAN : WriteChunk(emit)) \/ WriteFails
  \/ LoopBreak \/ LoopEnd

\* the fields of the job's state
jobState == <<total_size, total_copied, files_copied, canceled>>

\* C16: a job leaves Pending only with a destination directory that
\* exists, and with a destination that does not exist no file is created
\* anywhere.
C16_DestinationValidated ==
  /\ outcome # "Pending" => dest_dir \in Dirs
  /\ dest_dir \notin Dirs => \A q \in DOMAIN dst : dst[q].origin = <<>>

\* C17 as stated: while a job runs, every write to total_size,
\* total_copied, files_copied or canceled is done by a step of the worker.
C17_WorkerOwnsJobState ==
  [][ (Running /\ jobState' # jobState) => RunStep ]_vars

\* C17 amended: while a job runs, total_size is not written at all,
\* total_copied and files_copied are written only by steps of the worker,
\* and canceled is written only by cancel(), which sets it and writes no
\* other field; the worker never writes canceled.
C17_OwnershipAmended ==
  [][ Running =>
        /\ total_size' = total_size
        /\ <<total_copied, files_copied>>' # <<total_copied, files_copied>>
             => (RunStep /\ ~Cancel)
        /\ canceled' # canceled =>
             /\ Cancel /\ canceled'
             /\ UNCHANGED <<total_size, total_copied, files_copied>>
        /\ RunStep => canceled' = canceled
    ]_vars

\* C17 witness: the job was cancelled after the worker had counted a file
\* and before it ended
C17_Witness ==
  /\ canceled /\ files_copied >= 1 /\ total_copied > 0
  /\ pc = "done" /\ outcome = "Cancelled" /\ cancelTask = 2

\* C18: once cancel() has set the flag the worker writes at most one more
\* chunk, of at most 64 KiB, to the destination; and cancel() sets the
\* flag at whatever point the worker is, changing nothing of the worker's
\* position, files or counters.
C18_CancelLatency ==
  [][ /\ lateWrites' <= 1
      /\ chunk' <= ChunkSize
      /\ (canceled' /\ ~canceled) =>
           UNCHANGED <<fsVars, files, dest_dir, total_size, total_copied,
                     files_copied, pc, idx, dest_path, file_copied,
                     chunk, open, signalVars>>
    ]_vars

\* C18 witness: the flag was set between the test and the write, that one
\* chunk was written, and the job then ended Cancelled on its next test
C18_Witness ==
  /\ lateWrites = 1 /\ pc = "done" /\ outcome = "Cancelled" /\ cancelMid

\* C24: while a job runs and after it has ended, on each of its paths,
\* every file that was in the destination when the job was started is
\* still there with the content it had; and the destination paths of the
\* job's tasks (those copied, and the one in progress or failed) are all
\* different.
C24_OldFilesUntouched ==
  /\ \A p \in DOMAIN dstBefore : p \in DOMAIN dst /\ dst[p] = dstBefore[p]
  /\ \A i, j \in 1..Len(copiedTo) : i # j => copiedTo[i] # copiedTo[j]
  /\ Len(started) > Len(copiedTo) => dest_path \notin Range(copiedTo)

\* C24 witness: a.x was in the destination; the job copied s/a_1.x beside
\* it, then started s/a.x under a new name, failed in it after a chunk was
\* written and removed the partial file; a.x is as it was
C24_Witness ==
  /\ pc = "done" /\ outcome = "Failed" /\ file_copied > 0
  /\ Len(copiedTo) = 1 /\ Len(started) = 2
  /\ dest_path \notin DOMAIN dst
  /\ Join(dest_dir, Basename(SrcA)) \in DOMAIN dstBefore
  /\ dst[Join(dest_dir, Basename(SrcA))] = OldFile

\* C25: when a job has ended, Completed, Cancelled or Failed, every file
\* it added to the destination is a complete copy of its source.
C25_NoPartialFile ==
  pc = "done" =>
     \A p \in DOMAIN dst \ DOMAIN dstBefore :
        dst[p].bytes = srcSize[dst[p].origin]

\* the counters never pass their totals, and finished is emitted with
\* every task counted and every byte copied
CountersWithinTotals ==
  /\ files_copied <= Len(files) /\ total_copied <= total_size
  /\ nFinished <= 1
  /\ nFinished = 1 => (files_copied = Len(files) /\ total_copied = total_size)

\* C22 as stated: the counters stay within their totals, and a job that
\* has ended has emitted finished exactly when every task was processed
\* without an I/O error and cancel() had not been called by the time the
\* last task ended (a call that finds every task counted and was made
\* while no task was in progress came after the last task ended).
C22_Completion ==
  /\ CountersWithinTotals
  /\ pc = "done" =>
       (nFinished = 1 <=>
          /\ nError = 0 /\ files_copied = Len(files)
          /\ ~(canceled /\ cancelTask # 0))

\* C22 amended: the counters stay within their totals, and a job that has
\* ended has emitted finished exactly when every task was processed
\* without an I/O error and the flag was not set when run() tested it after
\* its loop.
C22_CompletionAmended ==
  /\ CountersWithinTotals
  /\ pc = "done" =>
       (nFinished = 1 <=>
          (nError = 0 /\ files_copied = Len(files) /\ ~canceled))

\* C22 witness: a job of two tasks has ended and has emitted finished
C22_Witness ==
  /\ pc = "done" /\ nFinished = 1 /\ Len(files) = 2
  /\ files_copied = 2 /\ total_copied = total_size /\ total_size > ChunkSize

(***************************************************************************)
(* find_duplicates, handle_duplicates and process_duplicates_tree.         *)
(***************************************************************************)
\* files in the source directory
MaxFiles == 3

\* the i-th file of the source directory
ScanPath(i) == <<"s", "/", "f">> \o Decimal(i)

\* the paths source_list holds, in the sorted order of load_source_files
ScanList == [i \in 1..MaxFiles |-> ScanPath(i)]

\* byte contents a file can have
Contents == {0, 1, 2}

\* two different contents with the same digest
Colliding == {0, 2}

\* hashlib.sha256 of a content: equal contents have equal digests
sha256(c) == IF c \in Colliding THEN <<"h", 0>> ELSE <<"h", c>>

\* get_file_hash(filepath), the definition of line 585, on a readable file
get_file_hash(filepath, d) == sha256(d[filepath])

\* the directories the chooser of Move Selected can return
SourceDir == <<"s">>

MoveDir == <<"m">>

\* a file that is in MoveDir before any move, named as the first source file
MovePre == Join(MoveDir, Basename(ScanPath(1)))

\* modification times: rising, falling or equal along the listing
MtimeChoices ==
  { [i \in 1..MaxFiles |-> i], [i \in 1..MaxFiles |-> MaxFiles + 1 - i],
    [i \in 1..MaxFiles |-> 1] }

\* key in duplicates
HasKey(dct, k) == \E i \in 1..Len(dct) : dct[i].hash = k

\* a variant that never finds the key
DictAppendAlwaysNew(dct, k, v) == Append(dct, [hash |-> k, files |-> <<v>>])

\* lines 344-347: duplicates[k].append(v), or duplicates[k] = [v]; the
\* dict is a sequence of entries in insertion order
DictAppend(dct, k, v) ==
  IF HasKey(dct, k)
  THEN [i \in 1..Len(dct) |->
          IF dct[i].hash = k THEN [dct[i] EXCEPT !.files = Append(@, v)]
          ELSE dct[i]]
  ELSE Append(dct, [hash |-> k, files |-> <<v>>])

\* a variant that keeps every entry
IsDuplicateGroupOfOne(e) == Len(e.files) >= 1

\* the filter of line 362
IsDuplicateGroup(e) == Len(e.files) > 1

\* a variant in which the error ends the scan
AfterOSErrorStops(cur, n) == n

\* the value of current after the except branch of lines 349-353: the loop
\* goes on
AfterOSError(cur, n) == cur + 1

\* files.sort(key=getmtime, reverse=True) of line 403: x put into a list
\* already sorted, behind the entries that are as new or newer
RECURSIVE InsertByMtime(_, _, _)
InsertByMtime(x, lst, mt) ==
  IF lst = <<>> THEN <<x>>
  ELSE IF mt[Head(lst)] >= mt[x]
       THEN <<Head(lst)>> \o InsertByMtime(x, Tail(lst), mt)
       ELSE <<x>> \o lst

RECURSIVE SortByMtime(_, _)
SortByMtime(lst, mt) ==
  IF lst = <<>> THEN <<>>
  ELSE InsertByMtime(lst[Len(lst)], SortByMtime(SubSeq(lst, 1, Len(lst) - 1), mt), mt)

\* the file items of the tree, group after group
RECURSIVE TreeFiles(_)
TreeFiles(t) == IF t = <<>> THEN <<>> ELSE Head(t) \o TreeFiles(Tail(t))

\* the checkboxes handle_duplicates checks at line 431: all but the first
\* file of each group
InitialBoxes(t) ==
  {t[g][i] : <<g, i>> \in {x \in (1..Len(t)) \X (1..MaxFiles) : x[2] > 1 /\ x[2] <= Len(t[x[1]])}}

IsBoxed(f) == f \in boxes

\* a variant that takes every file of the tree
CollectSelectedAll(t) == TreeFiles(t)

\* lines 525-535: the files whose checkbox is checked, in tree order
CollectSelected(t) == SelectSeq(TreeFiles(t), IsBoxed)

\* os.remove for each file of sel but those of failed, which raise OSError
RECURSIVE RemoveAll(_, _, _)
RemoveAll(d, sel, failed) ==
  IF sel = <<>> THEN d
  ELSE RemoveAll(IF Head(sel) \in failed THEN d ELSE RemoveFile(d, Head(sel)),
                 Tail(sel), failed)

\* shutil.move(p, q) on one file system: a rename that replaces q
MoveFile(d, p, q) ==
  IF p = q THEN d
  ELSE [x \in (DOMAIN d \ {p}) \cup {q} |-> IF x = q THEN d[p] ELSE d[x]]

\* lines 570-577
RECURSIVE MoveAll(_, _, _, _)
MoveAll(d, sel, dest, failed) ==
  IF sel = <<>> THEN d
  ELSE MoveAll(IF Head(sel) \in failed THEN d
               ELSE MoveFile(d, Head(sel), Join(dest, Basename(Head(sel)))),
               Tail(sel), dest, failed)

\* what the steps of the duplicate finder leave alone
dupOthers == <<cleanVars, engineVars, windowVars, listVars, renameVars>>

\* find_duplicates with nothing checked: lines 321-328
FindNothingSelected ==
  /\ dpc = "idle"
  /\ dresult' = "no_selection"
  /\ UNCHANGED <<dupOthers, disk, mtime, dpc, selected_files, duplicates,
                 current, wasCanceled, warnings, unreadable, handed, tree,
                 boxes, gboxes>>

\* find_duplicates with the items chk of source_list checked: lines 321-338
FindDuplicates(chk) ==
  /\ dpc = "idle"
  /\ chk # {}
  /\ selected_files' = [i \in 1..Cardinality(chk) |->
        ScanList[CHOOSE k \in chk : Cardinality({j \in chk : j < k}) = i - 1]]
  /\ duplicates' = <<>>
  /\ current' = 0
  /\ wasCanceled' = FALSE
  /\ dpc' = "scan"
  /\ UNCHANGED <<dupOthers, disk, mtime, warnings, unreadable, handed, tree,
                 boxes, gboxes, dresult>>

\* a variant of the loop that never tests the progress dialog
LoopGoesOnUntested(c) == TRUE

\* lines 341-342: the body of the loop is entered when
\* progress.wasCanceled() is false
LoopGoesOn(c) == ~c

\* lines 340-347 and 355-356: one file is hashed and filed
ScanFile ==
  /\ dpc = "scan" /\ LoopGoesOn(wasCanceled) /\ current < Len(selected_files)
  /\ LET file_path == selected_files[current + 1]
     IN  duplicates' = DictAppend(duplicates, get_file_hash(file_path, disk), file_path)
  /\ current' = current + 1
  /\ UNCHANGED <<dupOthers, disk, mtime, dpc, selected_files, wasCanceled,
                 warnings, unreadable, handed, tree, boxes, gboxes, dresult>>

\* lines 340-343 and 349-356: get_file_hash raises OSError, a message box
\* shows it
ScanFileFails ==
  /\ dpc = "scan" /\ LoopGoesOn(wasCanceled) /\ current < Len(selected_files)
  /\ warnings' = Append(warnings, selected_files[current + 1])
  /\ unreadable' = unreadable \cup {selected_files[current + 1]}
  /\ current' = AfterOSError(current, Len(selected_files))
  /\ UNCHANGED <<dupOthers, disk, mtime, dpc, selected_files, duplicates,
                 wasCanceled, handed, tree, boxes, gboxes, dresult>>

\* the user presses Cancel on the progress dialog while setValue or a
\* message box runs the event loop
ProgressCancel ==
  /\ dpc = "scan" /\ ~wasCanceled
  /\ current >= 1 /\ current < Len(selected_files)
  /\ wasCanceled' = TRUE
  /\ UNCHANGED <<dupOthers, disk, mtime, dpc, selected_files, duplicates,
                 current, warnings, unreadable, handed, tree, boxes, gboxes,
                 dresult>>

\* lines 341-342 and 359-370, and handle_duplicates up to dialog.exec()
ScanEnd ==
  /\ dpc = "scan"
  /\ ~LoopGoesOn(wasCanceled) \/ current = Len(selected_files)
  /\ duplicates' = SelectSeq(duplicates, IsDuplicateGroup)
  /\ IF duplicates' # <<>>
     THEN /\ handed' = duplicates'
          /\ tree' = [g \in 1..Len(duplicates') |->
                        SortByMtime(duplicates'[g].files, mtime)]
          /\ boxes' = InitialBoxes(tree')
          /\ gboxes' = {}
          /\ dpc' = "dialog"
          /\ UNCHANGED dresult
     ELSE /\ dresult' = "no_duplicates"
          /\ dpc' = "done"
          /\ UNCHANGED <<handed, tree, boxes, gboxes>>
  /\ UNCHANGED <<dupOthers, disk, mtime, selected_files, current, wasCanceled,
                 warnings, unreadable>>

\* the user clicks the checkbox of one file
ToggleBox(f) ==
  /\ dpc = "dialog"
  /\ f \in Range(TreeFiles(tree))
  /\ boxes' = IF f \in boxes THEN boxes \ {f} ELSE boxes \cup {f}
  /\ UNCHANGED <<dupOthers, disk, mtime, dpc, selected_files, duplicates,
                 current, wasCanceled, warnings, unreadable, handed, tree,
                 gboxes, dresult>>

\* the user clicks the checkbox of group g: update_group_items (lines
\* 459-462) runs over group_items, which names the list of the last group
\* by the time any signal arrives
ToggleGroupBox(g) ==
  /\ dpc = "dialog"
  /\ g <= Len(tree)
  /\ gboxes' = IF g \in gboxes THEN gboxes \ {g} ELSE gboxes \cup {g}
  /\ LET group_items == Range(tree[Len(tree)])
     IN  boxes' = IF g \in gboxes' THEN boxes \cup group_items
                  ELSE boxes \ group_items
  /\ UNCHANGED <<dupOthers, disk, mtime, dpc, selected_files, duplicates,
                 current, wasCanceled, warnings, unreadable, handed, tree,
                 dresult>>

\* Select All and Deselect All: update_selection(checked), lines 470-481
UpdateSelection(chk) ==
  /\ dpc = "dialog"
  /\ gboxes' = IF chk THEN 1..Len(tree) ELSE {}
  /\ boxes' = IF chk THEN Range(TreeFiles(tree)) ELSE {}
  /\ UNCHANGED <<dupOthers, disk, mtime, dpc, selected_files, duplicates,
                 current, wasCanceled, warnings, unreadable, handed, tree,
                 dresult>>

\* Invert Selection: lines 483-490
InvertSelection ==
  /\ dpc = "dialog"
  /\ boxes' = Range(TreeFiles(tree)) \ boxes
  /\ UNCHANGED <<dupOthers, disk, mtime, dpc, selected_files, duplicates,
                 current, wasCanceled, warnings, unreadable, handed, tree,
                 gboxes, dresult>>

\* Delete Selected or Move Selected with no box checked: lines 537-542
ProcessNothingSelected ==
  /\ dpc = "dialog"
  /\ CollectSelected(tree) = <<>>
  /\ dresult' = "no_files_selected"
  /\ UNCHANGED <<dupOthers, disk, mtime, dpc, selected_files, duplicates,
                 current, wasCanceled, warnings, unreadable, handed, tree,
                 boxes, gboxes>>

\* Delete Selected: process_duplicates_tree(tree, "remove", dialog); the
\* lists of the window are loaded again with nothing checked
DeleteSelected(yes) ==
  /\ dpc = "dialog"
  /\ CollectSelected(tree) # <<>>
  /\ IF yes
     THEN /\ \E failed \in SUBSET Range(CollectSelected(tree)) :
               disk' = RemoveAll(disk, CollectSelected(tree), failed)
          /\ dresult' = "removed"
          /\ dpc' = "done"
     ELSE /\ dresult' = "declined"
          /\ UNCHANGED <<disk, dpc>>
  /\ checked' = {}
  /\ UNCHANGED <<cleanVars, engineVars, dest_directory, destination_free_space,
                 diskFree, app, workers, written, copyResult, copyTotal,
                 copyFree, msg, copyFresh, copyDest, rerun, listVars, renameVars,
                 mtime, selected_files, duplicates, current,
                 wasCanceled, warnings, unreadable, handed, tree, boxes, gboxes>>

\* Move Selected: process_duplicates_tree(tree, "move", dialog); the
\* chooser returns the directory to_dir, or "" when it is cancelled
MoveSelected(to_dir) ==
  /\ dpc = "dialog"
  /\ CollectSelected(tree) # <<>>
  /\ IF to_dir # <<>>
     THEN /\ \E failed \in SUBSET Range(CollectSelected(tree)) :
               disk' = MoveAll(disk, CollectSelected(tree), to_dir, failed)
          /\ dresult' = "moved"
          /\ dpc' = "done"
     ELSE /\ dresult' = "chooser_cancelled"
          /\ UNCHANGED <<disk, dpc>>
  /\ checked' = {}
  /\ UNCHANGED <<cleanVars, engineVars, dest_directory, destination_free_space,
                 diskFree, app, workers, written, copyResult, copyTotal,
                 copyFree, msg, copyFresh, copyDest, rerun, listVars, renameVars,
                 mtime, selected_files, duplicates, current,
                 wasCanceled, warnings, unreadable, handed, tree, boxes, gboxes>>

\* Cancel of the duplicates dialog: dialog.reject
RejectDialog ==
  /\ dpc = "dialog"
  /\ dresult' = "rejected"
  /\ dpc' = "done"
  /\ UNCHANGED <<dupOthers, disk, mtime, selected_files, duplicates,
                 current, wasCanceled, warnings, unreadable, handed, tree,
                 boxes, gboxes>>

InitDup ==
  /\ CleanIdle /\ EngineIdle /\ WindowIdle /\ ListIdle /\ RenameIdle
  /\ \E c \in [1..MaxFiles -> Contents] :
       disk = [q \in {ScanPath(i) : i \in 1..MaxFiles} \cup {MovePre} |->
                 IF q = MovePre THEN 9
                 ELSE c[CHOOSE i \in 1..MaxFiles : ScanPath(i) = q]]
  /\ \E m \in MtimeChoices : mtime = [q \in {ScanPath(i) : i \in 1..MaxFiles} |->
                 m[CHOOSE i \in 1..MaxFiles : ScanPath(i) = q]]
  /\ dpc = "idle" /\ selected_files = <<>> /\ duplicates = <<>>
  /\ current = 0 /\ wasCanceled = FALSE
  /\ warnings = <<>> /\ unreadable = {}
  /\ handed = <<>> /\ tree = <<>> /\ boxes = {} /\ gboxes = {}
  /\ dresult = "none"

NextDup ==
  \/ FindNothingSelected
  \/ \E chk \in SUBSET (1..MaxFiles) : FindDuplicates(chk)
  \/ ScanFile
  \/ ScanFileFails
  \/ ProgressCancel
  \/ ScanEnd
  \/ \E f \in Range(ScanList) : ToggleBox(f)
  \/ \E g \in 1..MaxFiles : ToggleGroupBox(g)
  \/ \E chk \in BOOLEAN : UpdateSelection(chk)
  \/ InvertSelection
  \/ ProcessNothingSelected
  \/ \E yes \in BOOLEAN : DeleteSelected(yes)
  \/ \E to_dir \in {<<>>, SourceDir, MoveDir} : MoveSelected(to_dir)
  \/ RejectDialog

SpecDup == InitDup /\ [][NextDup]_vars

(***************************************************************************)
(* Properties of the duplicate finder.                                     *)
(***************************************************************************)
\* the place of a path in selected_files
ScanIndex(f) == CHOOSE i \in 1..Len(selected_files) : selected_files[i] = f

\* the scan is over and no file has been removed or moved since
ScanOver == dpc = "dialog" \/ (dpc = "done" /\ dresult = "no_duplicates")

\* a and b are members of one group of the mapping handed over
SameGroup(a, b) ==
  \E g \in 1..Len(handed) :
     a \in Range(handed[g].files) /\ b \in Range(handed[g].files)

\* the member lists that a scan of the paths sel must report: for every
\* digest that two or more of them have, the paths with it, in the order
\* of sel
GroupsOf(sel) ==
  { SelectSeq(sel, LAMBDA f : sha256(disk[f]) = h) :
      h \in { sha256(disk[sel[i]]) : i \in
                { k \in 1..Len(sel) :
                    \E j \in 1..Len(sel) :
                       j # k /\ sha256(disk[sel[j]]) = sha256(disk[sel[k]]) } } }

C12_ExactDetection ==
  (ScanOver /\ ~wasCanceled /\ unreadable = {}) =>
    \A a, b \in Range(selected_files) :
       a # b =>
         /\ disk[a] = disk[b] => SameGroup(a, b)
         /\ SameGroup(a, b) => (disk[a] = disk[b] \/ {disk[a], disk[b]} = Colliding)

\* C12 witness: of three readable files two have the same content and are
\* grouped, the third differs and is left out
C12_Witness ==
  /\ dpc = "dialog" /\ ~wasCanceled /\ unreadable = {}
  /\ Len(selected_files) = 3
  /\ \E a, b, c \in Range(selected_files) :
       /\ a # b /\ disk[a] = disk[b] /\ SameGroup(a, b)
       /\ sha256(disk[c]) # sha256(disk[a]) /\ ~SameGroup(a, c)

\* C13: after a scan that was not cancelled, every file whose hashing
\* raised an OS error is in no group and has exactly one message box, no
\* other file has one, every file of the selection was reached, and the
\* groups are those of the selection without the unreadable files.
C13_PartialFailure ==
  (ScanOver /\ ~wasCanceled) =>
    /\ current = Len(selected_files)
    /\ \A f \in Range(selected_files) :
         Cardinality({i \in 1..Len(warnings) : warnings[i] = f})
           = (IF f \in unreadable THEN 1 ELSE 0)
    /\ \A f \in unreadable : \A g \in 1..Len(handed) : f \notin Range(handed[g].files)
    /\ {handed[g].files : g \in 1..Len(handed)}
         = GroupsOf(SelectSeq(selected_files, LAMBDA f : f \notin unreadable))

\* C13 witness: the first file was unreadable, the two after it were
\* scanned and make a group
C13_Witness ==
  /\ dpc = "dialog" /\ ~wasCanceled
  /\ Len(selected_files) = 3
  /\ unreadable = {selected_files[1]}
  /\ Len(handed) = 1
  /\ handed[1].files = <<selected_files[2], selected_files[3]>>

\* C21: while the scan runs, a file is hashed (or fails to hash) only in a
\* step that starts with the progress dialog not cancelled, so that once
\* the dialog is cancelled no further file is hashed; and a cancelled scan,
\* stopped before the end of the selection, reports exactly the groups of
\* two or more among the readable files hashed before the cancellation.
C21_ScanCancellation ==
  /\ [][ (dpc = "scan" /\ wasCanceled) =>
            /\ current' = current
            /\ warnings' = warnings
            /\ unreadable' = unreadable ]_vars
  /\ []( (ScanOver /\ wasCanceled) =>
            /\ current < Len(selected_files)
            /\ {handed[g].files : g \in 1..Len(handed)}
                 = GroupsOf(SelectSeq(SubSeq(selected_files, 1, current),
                                      LAMBDA f : f \notin unreadable)) )

\* C21 witness: the scan was cancelled after two of three files, and those
\* two were handed over as a group
C21_Witness ==
  /\ dpc = "dialog" /\ wasCanceled
  /\ Len(selected_files) = 3 /\ current = 2 /\ unreadable = {}
  /\ Len(handed) = 1
  /\ handed[1].files = <<selected_files[1], selected_files[2]>>

\* C19: a step changes the files only when the user has answered Yes to
\* the removal question or has chosen a directory to move to; the paths
\* that disappear in it were all checked; no other step of the scan or of
\* the dialog (answering No, cancelling the chooser, Cancel) changes any
\* file.
C19_NoRemovalUnconfirmed ==
  [][ /\ disk' # disk =>
           /\ dpc = "dialog"
           /\ dresult' \in {"removed", "moved"}
           /\ \A q \in DOMAIN disk : q \notin DOMAIN disk' => q \in boxes
      /\ dresult' \in {"declined", "chooser_cancelled", "rejected",
                       "no_files_selected", "no_duplicates", "no_selection"}
           => disk' = disk
    ]_vars

\* C19 witness: a checked file was removed and an unchecked scanned file is
\* still there
C19_Witness ==
  /\ dpc = "done" /\ dresult = "removed"
  /\ \E a, b \in Range(selected_files) :
       /\ a \in boxes /\ a \notin DOMAIN disk
       /\ b \notin boxes /\ b \in DOMAIN disk

(***************************************************************************)
(* load_source_files and load_dest_files.                                  *)
(***************************************************************************)
\* the characters of the names below in code point order
CodeOrder ==
  <<" ", "!", "-", ".">> \o DigitChars \o UpperAlpha \o <<"_">> \o LowerAlpha

Ord(c) == CHOOSE i \in 1..Len(CodeOrder) : CodeOrder[i] = c

\* a < b for two str
RECURSIVE LessStr(_, _)
LessStr(a, b) ==
  IF b = <<>> THEN FALSE
  ELSE IF a = <<>> THEN TRUE
  ELSE IF Head(a) = Head(b) THEN LessStr(Tail(a), Tail(b))
  ELSE Ord(Head(a)) < Ord(Head(b))

\* sorted(files)
RECURSIVE sorted(_)
sorted(S) ==
  IF S = {} THEN <<>>
  ELSE LET m == CHOOSE x \in S : \A y \in S \ {x} : LessStr(x, y)
       IN  <<m>> \o sorted(S \ {m})

\* str.endswith
EndsWith(name, suffix) ==
  /\ Len(suffix) <= Len(name)
  /\ SubSeq(name, Len(name) - Len(suffix) + 1, Len(name)) = suffix

\* a variant that compares the name as it is spelled
PassesFilterCaseSensitive(filename, ext) ==
  ext = All \/ EndsWith(filename, ext)

\* the test of line 259
PassesFilter(filename, ext) ==
  ext = All \/ EndsWith(Lower(filename), Lower(ext))

\* os.path.isfile of an entry of the directory
IsFile(filename) == entries[filename] = "file"

\* the entries of self.extensions the model uses
Extensions == {All, <<".", "m", "p", "3">>, <<".", "o", "g", "g">>}

\* names an entry of the directory can have
EntryNames ==
  { <<"a", ".", "m", "p", "3">>, <<"B", ".", "M", "P", "3">>,
    <<"c", ".", "o", "g", "g">>, <<".", "m", "p", "3">>, <<"m", "p", "3">> }

DirStates == {"ok", "missing", "unreadable"}

ShownBy(filename) == PassesFilter(filename, extension') /\ IsFile(filename)

\* the user picks ext in extension_combo, or a source directory: the whole
\* of load_source_files
load_source_files(ext) ==
  /\ extension' = ext
  /\ lload' = "source"
  /\ lstate' = srcState
  /\ IF srcState = "missing"
     THEN source_list' = <<>> /\ lwarned' = FALSE
     ELSE IF srcState = "unreadable"
     THEN source_list' = <<>> /\ lwarned' = TRUE
     ELSE /\ source_list' = SelectSeq(sorted(DOMAIN entries), ShownBy)
          /\ lwarned' = FALSE
  /\ UNCHANGED <<cleanVars, engineVars, windowVars, dupVars, renameVars, entries,
                 srcState, dstState, dest_list>>

\* the whole of load_dest_files; for a directory that is not there the
\* text box is cleared, and dest_path_changed("") empties dest_directory
load_dest_files ==
  /\ lload' = "dest"
  /\ lstate' = dstState
  /\ IF dstState = "missing"
     THEN dest_list' = <<>> /\ lwarned' = FALSE /\ dest_directory' = <<>>
     ELSE IF dstState = "unreadable"
     THEN dest_list' = <<>> /\ lwarned' = TRUE /\ UNCHANGED dest_directory
     ELSE /\ dest_list' = SelectSeq(sorted(DOMAIN entries), IsFile)
          /\ lwarned' = FALSE
          /\ UNCHANGED dest_directory
  /\ UNCHANGED <<cleanVars, engineVars, dupVars, renameVars, checked,
                 destination_free_space, diskFree, app, workers, written,
                 copyResult, copyTotal, copyFree, msg, copyFresh, copyDest, rerun, entries, srcState,
                 dstState, extension, source_list>>

\* outside the program the source directory is removed, made unreadable,
\* or put back
SourceDirChanges(st) ==
  /\ srcState # st
  /\ srcState' = st
  /\ UNCHANGED <<cleanVars, engineVars, windowVars, dupVars, renameVars, entries,
                 dstState, extension, source_list, dest_list, lload, lstate,
                 lwarned>>

\* the same for the destination directory
DestDirChanges(st) ==
  /\ dstState # st
  /\ dstState' = st
  /\ UNCHANGED <<cleanVars, engineVars, windowVars, dupVars, renameVars, entries,
                 srcState, extension, source_list, dest_list, lload, lstate,
                 lwarned>>

InitList ==
  /\ CleanIdle /\ EngineIdle /\ WindowIdle /\ DupIdle /\ RenameIdle
  /\ \E present \in SUBSET EntryNames :
       entries \in [present -> {"file", "dir"}]
  /\ srcState \in DirStates /\ dstState \in DirStates
  /\ extension = All /\ source_list = <<>> /\ dest_list = <<>>
  /\ lload = "none" /\ lstate = "ok" /\ lwarned = FALSE

NextList ==
  \/ \E ext \in Extensions : load_source_files(ext)
  \/ load_dest_files
  \/ \E st \in DirStates : SourceDirChanges(st)
  \/ \E st \in DirStates : DestDirChanges(st)

SpecList == InitList /\ [][NextList]_vars

(***************************************************************************)
(* Properties of the listings.                                             *)
(***************************************************************************)
\* C14: after load_source_files the source list holds only entries of the
\* directory that are regular files and whose name is accepted by the
\* filter ("All", or the lowercased name ends with the lowercased filter),
\* in strictly rising name order; and when the directory could be listed
\* it holds every such entry.
C14_ListingFilter ==
  lload = "source" =>
    /\ \A i \in 1..Len(source_list) :
         /\ source_list[i] \in DOMAIN entries
         /\ entries[source_list[i]] = "file"
         /\ \/ extension = All
            \/ \E k \in 0..Len(source_list[i]) :
                 /\ Len(source_list[i]) - k = Len(extension)
                 /\ \A j \in 1..Len(extension) :
                      LowerChar(source_list[i][k + j]) = LowerChar(extension[j])
    /\ \A i, j \in 1..Len(source_list) :
         i < j => LessStr(source_list[i], source_list[j])
    /\ lstate = "ok" =>
         \A n \in DOMAIN entries :
            (entries[n] = "file" /\ (extension = All \/ EndsWith(Lower(n), Lower(extension))))
               => n \in Range(source_list)

\* C14 witness: with the filter .mp3 the list shows B.MP3 and a.mp3, in
\* that order, beside a directory or a name that the filter refuses
C14_Witness ==
  /\ lload = "source" /\ lstate = "ok"
  /\ extension = <<".", "m", "p", "3">>
  /\ source_list = << <<"B", ".", "M", "P", "3">>, <<"a", ".", "m", "p", "3">> >>
  /\ Cardinality(DOMAIN entries) >= 4

\* C15: a load of either list from a directory that is missing or cannot
\* be read leaves the list empty and shows an error.
C15_AccessErrorsSurfaced ==
  (lload # "none" /\ lstate \in {"missing", "unreadable"}) =>
    /\ lwarned
    /\ lload = "source" => source_list = <<>>
    /\ lload = "dest" => dest_list = <<>>

(***************************************************************************)
(* clean_selected_directory, get_files_to_clean and apply_clean_changes.   *)
(***************************************************************************)
\* names a directory can hold: two that clean to a third, each with or
\* without the third, and names that need no cleaning
RenameNames ==
  { <<"A", ".", "x">>, <<"a", ".", "x">>, <<"a", "!", ".", "x">>,
    <<"B", " ", "b", ".", "x">>, <<"b", ".", "b", ".", "x">> }

\* get_files_to_clean: for the items of the list whose cleaned name
\* differs, the old and the new name in the directory
RECURSIVE get_files_to_clean(_)
get_files_to_clean(list) ==
  IF list = <<>> THEN <<>>
  ELSE LET old_name == Head(list)
           new_name == clean_filename(old_name)
           rest == get_files_to_clean(Tail(list))
       IN  IF new_name # old_name
           THEN <<[old |-> old_name, new |-> new_name]>> \o rest
           ELSE rest

\* os.rename(old, new) on a directory d holding old (POSIX: a file at new
\* is replaced without an error)
os_rename(d, old, new) ==
  [n \in (DOMAIN d \ {old}) \cup {new} |-> IF n = new THEN d[old] ELSE d[n]]

renameOthers == <<cleanVars, engineVars, windowVars, dupVars, listVars>>

\* lines 946-948: neither check box is checked
CleanNoneChecked ==
  /\ rpc = "idle"
  /\ rmsg' = "none_checked"
  /\ UNCHANGED <<renameOthers, rdir, rlist, changes, ri, errors, rpc,
                 rbefore, replaced>>

\* lines 950-961: the directory's box is checked and no listed name
\* changes under clean_filename
CleanNothingToDo ==
  /\ rpc = "idle"
  /\ get_files_to_clean(rlist) = <<>>
  /\ changes' = <<>>
  /\ errors' = <<>>
  /\ rmsg' = "no_files"
  /\ rbefore' = Cardinality(DOMAIN rdir)
  /\ replaced' = {}
  /\ UNCHANGED <<renameOthers, rdir, rlist, ri, rpc>>

\* lines 950-965: the renames are collected and the question is asked
CleanAsk ==
  /\ rpc = "idle"
  /\ get_files_to_clean(rlist) # <<>>
  /\ changes' = get_files_to_clean(rlist)
  /\ errors' = <<>>
  /\ rpc' = "confirm"
  /\ rbefore' = Cardinality(DOMAIN rdir)
  /\ replaced' = {}
  /\ UNCHANGED <<renameOthers, rdir, rlist, ri, rmsg>>

\* lines 965-969: the answer to the question
ConfirmClean(yes) ==
  /\ rpc = "confirm"
  /\ IF yes
     THEN rpc' = "apply" /\ ri' = 1 /\ UNCHANGED rmsg
     ELSE rpc' = "idle" /\ rmsg' = "declined" /\ UNCHANGED ri
  /\ UNCHANGED <<renameOthers, rdir, rlist, changes, errors, rbefore, replaced>>

\* lines 1001-1003: os.rename of the change the loop is at succeeds
RenameOne ==
  /\ rpc = "apply" /\ ri <= Len(changes)
  /\ changes[ri].old \in DOMAIN rdir
  /\ rdir' = os_rename(rdir, changes[ri].old, changes[ri].new)
  /\ replaced' = IF changes[ri].new \in DOMAIN rdir
                 THEN replaced \cup {rdir[changes[ri].new]}
                 ELSE replaced
  /\ ri' = ri + 1
  /\ UNCHANGED <<renameOthers, rlist, changes, errors, rpc, rmsg, rbefore>>

\* lines 1003-1005: os.rename raises OSError (the old path is gone, the
\* platform refuses to replace, no permission) and the error is collected
RenameFails ==
  /\ rpc = "apply" /\ ri <= Len(changes)
  /\ errors' = Append(errors, changes[ri].old)
  /\ ri' = ri + 1
  /\ UNCHANGED <<renameOthers, rdir, rlist, changes, rpc, rmsg, rbefore,
                 replaced>>

\* lines 1006 and 971-978: the list is loaded again and the result shown
CleanEnd ==
  /\ rpc = "apply" /\ ri > Len(changes)
  /\ rlist' = sorted(DOMAIN rdir)
  /\ rmsg' = "cleaned"
  /\ rpc' = "idle"
  /\ UNCHANGED <<renameOthers, rdir, changes, ri, errors, rbefore, replaced>>

\* a directory of some of the names, each file with a content of its own,
\* listed by load_source_files
InitRename ==
  /\ CleanIdle /\ EngineIdle /\ WindowIdle /\ DupIdle /\ ListIdle
  /\ \E present \in SUBSET RenameNames : rdir = [n \in present |-> n]
  /\ rlist = sorted(DOMAIN rdir)
  /\ changes = <<>> /\ ri = 0 /\ errors = <<>>
  /\ rpc = "idle" /\ rmsg = "none"
  /\ rbefore = Cardinality(DOMAIN rdir) /\ replaced = {}

NextRename ==
  \/ CleanNoneChecked
  \/ CleanNothingToDo
  \/ CleanAsk
  \/ \E yes \in BOOLEAN : ConfirmClean(yes)
  \/ RenameOne
  \/ RenameFails
  \/ CleanEnd

SpecRename == InitRename /\ [][NextRename]_vars

(***************************************************************************)
(* Properties of Clean Names.                                              *)
(***************************************************************************)
\* C23: when clean_selected_directory has applied its renames, the
\* directory holds as many files as when the handler was entered, and no
\* rename has replaced a file that was there.
C23_CleanNeverDestroys ==
  (rpc = "idle" /\ rmsg = "cleaned") =>
     (Cardinality(DOMAIN rdir) = rbefore /\ replaced = {})

====
